---- MODULE Spec2Model ----
(***************************************************************************)
(* A model of src/core/user-flow.js: the UserFlow capture state machine   *)
(* (navigate, startNavigation/endNavigation, startTimespan/endTimespan,   *)
(* snapshot), its step registry, the promise plumbing between them, and   *)
(* the aggregator (createFlowResult, auditGatherSteps).                   *)
(*                                                                         *)
(* JavaScript promises are modelled explicitly: every promise the class   *)
(* creates is a record [st, err]; every reaction to a settled promise is a *)
(* job in the FIFO microtask queue mq.  The capture collaborators         *)
(* (navigationGather, startTimespanGather, snapshotGather), the           *)
(* configuration resolver and the audit collaborator are not part of the   *)
(* file: they are modelled at their interface as processes that settle at  *)
(* any moment, with any outcome.                                           *)
(***************************************************************************)
EXTENDS Integers, Sequences, FiniteSets, TLC

(***************************************************************************)
(* Bounds of the model.                                                    *)
(***************************************************************************)
\* Captures are started only while the registry holds fewer steps than this.
MaxSteps == 2
\* Number of call records (API invocations that have not been collected).
MaxCalls == 2

(***************************************************************************)
(* JavaScript values.                                                      *)
(***************************************************************************)
\* The value undefined of a string-valued property (config, stepName, name).
Undefined == "undefined"

\* A flags object: defined = FALSE is the value undefined; a property holds
\* "true", "false" or "undefined" (absent and undefined read the same).
Flags(sab, dsr) == [defined |-> TRUE, skipAboutBlank |-> sab, disableStorageReset |-> dsr]
UndefinedFlags == [defined |-> FALSE, skipAboutBlank |-> Undefined, disableStorageReset |-> Undefined]
EmptyFlags == Flags(Undefined, Undefined)

\* An options object is a function from the property names it has to their
\* values; a property it lacks reads undefined.
NoOptions == [k \in {} |-> Undefined]

Get(o, k) == IF k \in DOMAIN o THEN o[k] ELSE Undefined

GetFlags(o) == IF "flags" \in DOMAIN o THEN o["flags"] ELSE UndefinedFlags

\* {...a, ...b}: b's own properties win, also those whose value is undefined.
Spread(a, b) == [k \in (DOMAIN a) \cup (DOMAIN b) |-> IF k \in DOMAIN b THEN b[k] ELSE a[k]]

\* {...flags}: a fresh object; spreading undefined gives {}.
SpreadFlags(f) == IF f.defined THEN f ELSE EmptyFlags

\* JavaScript truthiness of a string-valued property.
Truthy(s) == s # Undefined /\ s # ""

(***************************************************************************)
(* Inputs.                                                                 *)
(***************************************************************************)
\* The options a flow is constructed with.
FlowOptionsSet ==
  { NoOptions,
    [name |-> "My flow", config |-> "flowConfig", flags |-> Flags("false", "true")],
    [name |-> "", flags |-> Flags(Undefined, "false")] }

\* The stepOptions a method is called with (NoOptions: none given).
StepOptionsSet ==
  { NoOptions,
    [stepName |-> "My step", flags |-> Flags(Undefined, "false")],
    [config |-> "stepConfig", flags |-> Flags("true", Undefined)],
    [stepName |-> "", config |-> Undefined] }

\* The final URLs the collaborators report.
URLs == { "https://example.com/foo?x=1#y" }

\* More of them, for the names derived from the URL: another host, a port,
\* no path.
OtherURLs == { "https://shop.example/cart", "https://shop.example:8443" }

\* Step options that differ in the stepName only.
StepNameOptionsSet == { NoOptions, [stepName |-> "My step"], [stepName |-> ""] }

\* Failures of the capture collaborators.
GatherErrors == { "GatherFailed", "PageCrashed" }

(***************************************************************************)
(* new URL(longUrl): the parts of a URL string that the class reads.       *)
(***************************************************************************)
\* The least position >= from of s holding one of chars, or Len(s) + 1.
FirstOf(s, from, chars) ==
  LET hits == { i \in from..Len(s) : SubSeq(s, i, i) \in chars }
  IN  IF hits = {} THEN Len(s) + 1 ELSE CHOOSE i \in hits : \A j \in hits : i <= j

\* The authority starts after "scheme://" and ends before the path, the
\* query or the fragment.
AuthorityStart(longUrl) == FirstOf(longUrl, 1, {":"}) + 3
AuthorityEnd(longUrl) == FirstOf(longUrl, AuthorityStart(longUrl), {"/", "?", "#"})

\* url.hostname: the authority without its port.
Hostname(longUrl) ==
  LET authority == SubSeq(longUrl, AuthorityStart(longUrl), AuthorityEnd(longUrl) - 1)
  IN  SubSeq(authority, 1, FirstOf(authority, 1, {":"}) - 1)

\* url.pathname: up to the query or fragment; "/" when the URL has no path.
Pathname(longUrl) ==
  LET from == AuthorityEnd(longUrl)
      path == SubSeq(longUrl, from, FirstOf(longUrl, from, {"?", "#"}) - 1)
  IN  IF path = "" THEN "/" ELSE path

(***************************************************************************)
(* The state of one UserFlow, and of the calls made on it.                 *)
(***************************************************************************)
VARIABLES
  options,                  \* this.options (this.name is its name property)
  _gatherSteps,             \* this._gatherSteps
  _gatherStepRunnerOptions, \* this._gatherStepRunnerOptions, by step index
  currentNavigation,        \* 0 (undefined), or the startNavigation call whose
                            \* continueAndAwaitResult closure it holds
  currentTimespan,          \* [present, options]: {timespan, options} or undefined
  calls,                    \* the invocations in progress, by call id
  mq,                       \* the microtask queue: reactions to settled promises
  awaitsEachCall,           \* the caller awaits each call before the next one
  trial,                    \* the comparison of navigate with its deferred form
                            \* that the caller is running, if any
  failedAt                  \* history: the length the registry had when an
                            \* aggregation pass last failed for want of an audit
                            \* result (0: none has)

vars == <<options, _gatherSteps, _gatherStepRunnerOptions, currentNavigation,
          currentTimespan, calls, mq, awaitsEachCall, trial, failedAt>>

\* The caller's own state.
caller == <<awaitsEachCall, trial>>

\* What no action but those that say so changes.
flow == <<options, _gatherSteps, _gatherStepRunnerOptions, currentNavigation,
          currentTimespan, caller, failedAt>>

\* The fields that _getNextNavigationOptions has no write near.
flowButOptions == <<_gatherSteps, _gatherStepRunnerOptions, currentNavigation,
                    currentTimespan, caller, failedAt>>

\* this.name
name == Get(options, "name")

CallIds == 1..MaxCalls

\* Promises.
Pending == [st |-> "pending", err |-> ""]
Fulfilled == [st |-> "fulfilled", err |-> ""]
Rejected(e) == [st |-> "rejected", err |-> e]
Settled(p) == p.st # "pending"

NoArtifacts == [gatherMode |-> "", finalUrl |-> ""]
NoRunnerOptions == [config |-> [gatherMode |-> "", configJson |-> "", flags |-> UndefinedFlags]]
NoFlowResult == [steps |-> <<>>, name |-> ""]
NoTimespan == [present |-> FALSE, options |-> NoOptions]

\* What a call saw of the flow when it was invoked.
FlowState == [currentNavigation |-> currentNavigation,
              currentTimespan |-> currentTimespan,
              _gatherSteps |-> _gatherSteps]

NoFlowState == [currentNavigation |-> 0, currentTimespan |-> NoTimespan,
                _gatherSteps |-> <<>>]

\* A call record.  op: the method; stepOptions: its argument; pre: the flow
\* at the invocation; options: the options object the method computed;
\* gather: the collaborator's progress (none: never called); artifacts, gerr:
\* what the collaborator settled with; retP: the promise the method returned;
\* observed: the caller's await of retP has resumed.  Of startNavigation:
\* navP (the promise of this.navigate), setupP (navigationSetupPromise),
\* resP (navigationResultPromise), resHandled (resP has a reaction),
\* continued (continueNavigation was invoked).  Of endNavigation: tgt (the
\* startNavigation call it continues), cawrP (the promise of
\* continueAndAwaitResult()).  reported is history, not program state: how
\* many endNavigation calls (at most 2 are counted) have rejected with the
\* failure of this startNavigation call's capture.  Of createFlowResult and
\* auditGatherSteps: table (options.gatherStepRunnerOptions was passed), idx
\* (the position of the loop in gatherSteps), runnerOptions (those of the
\* step at idx), steps (the results collected), value (what the promise was
\* fulfilled with); invoked is history: the positions of the steps that
\* Runner.audit was called for, in the order of the calls.
FreeCall ==
  [op |-> "free", stepOptions |-> NoOptions, pre |-> NoFlowState, options |-> NoOptions,
   gather |-> "none", artifacts |-> NoArtifacts, gerr |-> "",
   retP |-> Pending, observed |-> FALSE,
   navP |-> Pending, setupP |-> Pending, resP |-> Pending,
   resHandled |-> FALSE, continued |-> FALSE, tgt |-> 0, cawrP |-> Pending,
   reported |-> 0,
   table |-> FALSE, idx |-> 0, runnerOptions |-> NoRunnerOptions, steps |-> <<>>,
   value |-> NoFlowResult, invoked |-> <<>>]

Job(kind, id) == [kind |-> kind, id |-> id]

(***************************************************************************)
(* The methods of the class that compute without waiting.                  *)
(***************************************************************************)
\* As _shortenUrl, keeping what follows the path.
_shortenUrl_KeepsQuery(longUrl) ==
  Hostname(longUrl) \o SubSeq(longUrl, AuthorityEnd(longUrl), Len(longUrl))

_shortenUrl(longUrl) == Hostname(longUrl) \o Pathname(longUrl)

_getDefaultStepName(artifacts) ==
  LET shortUrl == _shortenUrl(artifacts.finalUrl)
  IN  CASE artifacts.gatherMode = "navigation" -> "Navigation report (" \o shortUrl \o ")"
        [] artifacts.gatherMode = "timespan" -> "Timespan report (" \o shortUrl \o ")"
        [] artifacts.gatherMode = "snapshot" -> "Snapshot report (" \o shortUrl \o ")"
        [] OTHER -> Undefined

\* As isSubsequentNavigation, counting the steps of every mode.
isSubsequentNavigation_AnyStep == Len(_gatherSteps) > 0

\* Some step of the registry was captured in navigation mode.
isSubsequentNavigation ==
  \E k \in 1..Len(_gatherSteps) : _gatherSteps[k].artifacts.gatherMode = "navigation"

_getNextNavigationOptions(stepOptions) ==
  LET merged == Spread(options, stepOptions)
      flags0 == SpreadFlags(GetFlags(merged))
      flags1 == IF flags0.skipAboutBlank = Undefined
                THEN [flags0 EXCEPT !.skipAboutBlank = "true"]
                ELSE flags0
      flags2 == IF isSubsequentNavigation /\ flags1.disableStorageReset = Undefined
                THEN [flags1 EXCEPT !.disableStorageReset = "true"]
                ELSE flags1
  IN  Spread(merged, [flags |-> flags2])

\* As FlowOptionsAfterDefaults, for `const flags = options.flags`: without
\* the copy the defaults are written into the flags object of the merged
\* options, which is the flow's own when the step options have no flags.
FlowOptionsAfterDefaults_NoCopy(stepOptions) ==
  IF "flags" \notin DOMAIN stepOptions /\ GetFlags(options).defined
  THEN [options EXCEPT !["flags"] = GetFlags(_getNextNavigationOptions(stepOptions))]
  ELSE options

\* this.options after _getNextNavigationOptions: the defaults are written
\* into flags, a fresh copy ({...options.flags}), and options.flags = flags
\* is a write to the merged object; this.options and its flags object are
\* left as they were.
FlowOptionsAfterDefaults(stepOptions) == options

\* {...this.options, ...stepOptions} of startTimespan and snapshot.
MergedOptions(stepOptions) == Spread(options, stepOptions)

\* The step _addGatherStep builds from a gather result and the options.
GatherStep(gatherResult, opts) ==
  [artifacts |-> gatherResult.artifacts,
   name |-> IF Truthy(Get(opts, "stepName"))
            THEN Get(opts, "stepName")
            ELSE _getDefaultStepName(gatherResult.artifacts),
   config |-> Get(opts, "config"),
   flags |-> GetFlags(opts)]

\* As _addGatherStep, with unshift for push.
_addGatherStep_Unshift(gatherResult, opts) ==
  /\ _gatherSteps' = <<GatherStep(gatherResult, opts)>> \o _gatherSteps
  /\ _gatherStepRunnerOptions' = <<gatherResult.runnerOptions>> \o _gatherStepRunnerOptions

_addGatherStep(gatherResult, opts) ==
  /\ _gatherSteps' = Append(_gatherSteps, GatherStep(gatherResult, opts))
  /\ _gatherStepRunnerOptions' = Append(_gatherStepRunnerOptions, gatherResult.runnerOptions)

(***************************************************************************)
(* The collaborators, at their interface.                                  *)
(***************************************************************************)
\* The configuration resolver: the configuration of a capture mode, a config
\* (the default one when undefined) and flags.
initializeConfig(gatherMode, configJson, flags) ==
  [gatherMode |-> gatherMode,
   configJson |-> IF configJson = Undefined THEN "defaultConfig" ELSE configJson,
   flags |-> flags]

\* What a capture collaborator resolves with: artifacts that record the
\* capture mode and the final URL, and the runner options it resolved.
GatherResult(mode, url, opts) ==
  [artifacts |-> [gatherMode |-> mode, finalUrl |-> url],
   runnerOptions |-> [config |-> initializeConfig(mode, Get(opts, "config"), GetFlags(opts))]]

\* The capture mode of the collaborator a method calls.
ModeOf(op) ==
  CASE op \in {"navigate", "startNavigation"} -> "navigation"
    [] op \in {"startTimespan", "endTimespan"} -> "timespan"
    [] OTHER -> "snapshot"

(***************************************************************************)
(* Call records and the microtask queue.                                   *)
(***************************************************************************)
\* A call record can be dropped once nothing can read or change it: its
\* caller has resumed, no job and no collaborator works for it, and the flow
\* holds no closure over it.
Collectable(c, nav, q, i) ==
  /\ c[i].op # "free"
  /\ c[i].observed
  /\ nav # i
  /\ \A k \in 1..Len(q) : q[k].id # i
  /\ c[i].gather \notin {"setup", "waiting", "running"}
  /\ c[i].op = "startNavigation" => Settled(c[i].navP) /\ Settled(c[i].resP)
  /\ \A e \in CallIds : ~(c[e].op = "endNavigation" /\ c[e].tgt = i /\ ~c[e].observed)

Collect(c, nav, q) ==
  [i \in CallIds |-> IF Collectable(c, nav, q, i) THEN FreeCall ELSE c[i]]

\* The record of a new call of method op.
NewCall(op, stepOptions) ==
  [FreeCall EXCEPT !.op = op, !.stepOptions = stepOptions, !.pre = FlowState]

\* Every call made so far has settled and its caller has resumed.
Sequential == \A i \in CallIds : calls[i].op = "free" \/ calls[i].observed

\* Nothing is in progress: no call record is left and no job is queued.
Quiescent == mq = <<>> /\ \A i \in CallIds : calls[i].op = "free"

\* The registry and its side table.
Registry == [_gatherSteps |-> _gatherSteps,
             _gatherStepRunnerOptions |-> _gatherStepRunnerOptions]

NoRegistry == [_gatherSteps |-> <<>>, _gatherStepRunnerOptions |-> <<>>]

\* No comparison is running.  In a comparison the caller takes one flow
\* through navigate(stepOptions) and a second flow, in the state the first
\* one was in, through startNavigation(stepOptions) and endNavigation();
\* in both the collaborator succeeds, with the final URL url.  phase is
\* "navigate", then "deferred"; saved is the registry both flows start
\* with; direct is the registry the first flow ended with.
NoTrial == [phase |-> "off", stepOptions |-> NoOptions, url |-> "",
            saved |-> NoRegistry, direct |-> NoRegistry]

\* The calls the caller makes: any while no comparison is running, and
\* those of the comparison while one is.
MayCall(op, stepOptions) ==
  CASE trial.phase = "navigate" ->
         /\ op = "navigate"
         /\ stepOptions = trial.stepOptions
         /\ Registry = trial.saved
    [] trial.phase = "deferred" ->
         \/ /\ op = "startNavigation"
            /\ stepOptions = trial.stepOptions
            /\ currentNavigation = 0
            /\ Registry = trial.saved
         \/ /\ op = "endNavigation"
            /\ currentNavigation # 0
    [] OTHER -> TRUE

\* A new call can be made, and i is the id it gets: the least free one.
IsFreeSlot(i) ==
  /\ awaitsEachCall => Sequential
  /\ calls[i].op = "free"
  /\ \A j \in CallIds : j < i => calls[j].op # "free"

\* The jobs of the endNavigation calls whose continueAndAwaitResult awaits
\* the navigationResultPromise of call i, in the order of their ids.
RECURSIVE WaiterJobs(_, _, _)
WaiterJobs(c, i, e) ==
  IF e > MaxCalls THEN <<>>
  ELSE (IF c[e].op = "endNavigation" /\ c[e].tgt = i /\ ~Settled(c[e].cawrP)
        THEN <<Job("cawrCont", e)>> ELSE <<>>) \o WaiterJobs(c, i, e + 1)

\* The job that resumes a method after the await of its collaborator.
ContinuationOf(op) ==
  CASE op \in {"navigate", "startNavigation"} -> "navCont"
    [] op = "startTimespan" -> "tsStartCont"
    [] op = "endTimespan" -> "tsEndCont"
    [] OTHER -> "snapCont"

\* The head of the microtask queue is a job of this kind.
NextJob(kind) == mq # <<>> /\ Head(mq).kind = kind

(***************************************************************************)
(* The state checks at the start of the methods.  "" when they pass.       *)
(***************************************************************************)
\* As CaptureCheck, without the check of currentNavigation.
CaptureCheck_NoNavigationCheck ==
  IF currentTimespan.present THEN "Timespan already in progress" ELSE ""

\* As CaptureCheck, without the check of currentTimespan.
CaptureCheck_NoTimespanCheck ==
  IF currentNavigation # 0 THEN "Navigation already in progress" ELSE ""

\* As CaptureCheck, with the two messages exchanged.
CaptureCheck_MessagesSwapped ==
  IF currentTimespan.present THEN "Navigation already in progress"
  ELSE IF currentNavigation # 0 THEN "Timespan already in progress"
  ELSE ""

\* navigate, startTimespan, snapshot
CaptureCheck ==
  IF currentTimespan.present THEN "Timespan already in progress"
  ELSE IF currentNavigation # 0 THEN "Navigation already in progress"
  ELSE ""

EndNavigationCheck ==
  IF currentTimespan.present THEN "Timespan already in progress"
  ELSE IF currentNavigation = 0 THEN "No navigation in progress"
  ELSE ""

\* As EndTimespanCheck, without the check that a timespan is in progress.
EndTimespanCheck_NoTimespanCheck ==
  IF currentNavigation # 0 THEN "Navigation already in progress" ELSE ""

EndTimespanCheck ==
  IF ~currentTimespan.present THEN "No timespan in progress"
  ELSE IF currentNavigation # 0 THEN "Navigation already in progress"
  ELSE ""

\* A synchronous throw of an async method: it returns a rejected promise,
\* and the caller's await of it resumes from the queue.
ThrowAtCall(i, op, stepOptions, err) ==
  /\ calls' = [calls EXCEPT ![i] = [NewCall(op, stepOptions) EXCEPT !.retP = Rejected(err)]]
  /\ mq' = Append(mq, Job("callerCont", i))
  /\ UNCHANGED flow

(***************************************************************************)
(* The methods, up to their first await.  i is the id of the new call.     *)
(***************************************************************************)
\* navigate called by the user with a requestor of the user's own, which
\* needs no continuation.
navigate(i, stepOptions) ==
  /\ IsFreeSlot(i)
  /\ MayCall("navigate", stepOptions)
  /\ IF CaptureCheck # ""
     THEN ThrowAtCall(i, "navigate", stepOptions, CaptureCheck)
     ELSE /\ Len(_gatherSteps) < MaxSteps
          /\ calls' = [calls EXCEPT ![i] =
                         [NewCall("navigate", stepOptions) EXCEPT
                            !.options = _getNextNavigationOptions(stepOptions),
                            !.gather = "setup",
                            !.continued = TRUE]]
          /\ options' = FlowOptionsAfterDefaults(stepOptions)
          /\ UNCHANGED <<flowButOptions, mq>>

\* As StartNavigationOptions, for a startNavigation that does not hand its
\* stepOptions on to navigate.
StartNavigationOptions_Dropped(stepOptions) == _getNextNavigationOptions(NoOptions)

\* The options of the navigate call that startNavigation makes:
\* this.navigate(requestor, stepOptions).
StartNavigationOptions(stepOptions) == _getNextNavigationOptions(stepOptions)

\* startNavigation: it calls this.navigate with the requestor that resolves
\* navigationSetupPromise, attaches the catch reaction and awaits
\* navigationSetupPromise.  When this.navigate throws at its state checks,
\* the promise it returns is rejected at once and the catch reaction is
\* queued.
startNavigation(i, stepOptions) ==
  /\ IsFreeSlot(i)
  /\ MayCall("startNavigation", stepOptions)
  /\ IF CaptureCheck # ""
     THEN /\ calls' = [calls EXCEPT ![i] =
                         [NewCall("startNavigation", stepOptions) EXCEPT
                            !.navP = Rejected(CaptureCheck)]]
          /\ mq' = Append(mq, Job("catch", i))
          /\ options' = options
     ELSE /\ Len(_gatherSteps) < MaxSteps
          /\ calls' = [calls EXCEPT ![i] =
                         [NewCall("startNavigation", stepOptions) EXCEPT
                            !.options = StartNavigationOptions(stepOptions),
                            !.gather = "setup"]]
          /\ mq' = mq
          /\ options' = FlowOptionsAfterDefaults(stepOptions)
  /\ UNCHANGED flowButOptions

\* endNavigation: after its checks it calls continueAndAwaitResult, which
\* invokes continueNavigation and awaits navigationResultPromise.
endNavigation(i) ==
  /\ IsFreeSlot(i)
  /\ MayCall("endNavigation", NoOptions)
  /\ IF EndNavigationCheck # ""
     THEN ThrowAtCall(i, "endNavigation", NoOptions, EndNavigationCheck)
     ELSE LET t == currentNavigation
          IN  /\ calls' = [calls EXCEPT
                             ![i] = [NewCall("endNavigation", NoOptions) EXCEPT !.tgt = t],
                             ![t] = [@ EXCEPT !.continued = TRUE, !.resHandled = TRUE]]
              /\ mq' = IF Settled(calls[t].resP)
                       THEN Append(mq, Job("cawrCont", i))
                       ELSE mq
              /\ UNCHANGED flow

startTimespan(i, stepOptions) ==
  /\ IsFreeSlot(i)
  /\ MayCall("startTimespan", stepOptions)
  /\ IF CaptureCheck # ""
     THEN ThrowAtCall(i, "startTimespan", stepOptions, CaptureCheck)
     ELSE /\ Len(_gatherSteps) < MaxSteps
          /\ calls' = [calls EXCEPT ![i] =
                         [NewCall("startTimespan", stepOptions) EXCEPT
                            !.options = MergedOptions(stepOptions),
                            !.gather = "running"]]
          /\ UNCHANGED <<flow, mq>>

endTimespan(i) ==
  /\ IsFreeSlot(i)
  /\ MayCall("endTimespan", NoOptions)
  /\ IF EndTimespanCheck # ""
     THEN ThrowAtCall(i, "endTimespan", NoOptions, EndTimespanCheck)
     ELSE /\ calls' = [calls EXCEPT ![i] =
                         [NewCall("endTimespan", NoOptions) EXCEPT
                            !.options = currentTimespan.options,
                            !.gather = "running"]]
          /\ UNCHANGED <<flow, mq>>

snapshot(i, stepOptions) ==
  /\ IsFreeSlot(i)
  /\ MayCall("snapshot", stepOptions)
  /\ IF CaptureCheck # ""
     THEN ThrowAtCall(i, "snapshot", stepOptions, CaptureCheck)
     ELSE /\ Len(_gatherSteps) < MaxSteps
          /\ calls' = [calls EXCEPT ![i] =
                         [NewCall("snapshot", stepOptions) EXCEPT
                            !.options = MergedOptions(stepOptions),
                            !.gather = "running"]]
          /\ UNCHANGED <<flow, mq>>

(***************************************************************************)
(* The capture collaborators.                                              *)
(***************************************************************************)
Active(i) == calls[i].gather \in {"setup", "waiting", "running"}

\* navigationGather invokes the requestor.  The requestor of
\* startNavigation calls completeSetup, which resolves
\* navigationSetupPromise (a settled promise stays as it is).
InvokeRequestor(i) ==
  /\ calls[i].gather = "setup"
  /\ LET first == calls[i].op = "startNavigation" /\ ~Settled(calls[i].setupP)
     IN  /\ calls' = [calls EXCEPT ![i] =
                        [@ EXCEPT !.gather = "waiting",
                                  !.setupP = IF first THEN Fulfilled ELSE @]]
         /\ mq' = IF first THEN Append(mq, Job("setupCont", i)) ELSE mq
  /\ UNCHANGED flow

\* The promise the requestor returned resolves (for startNavigation: once
\* continueNavigation was invoked) and navigationGather goes on.
RequestorSettles(i) ==
  /\ calls[i].gather = "waiting"
  /\ calls[i].continued
  /\ calls' = [calls EXCEPT ![i].gather = "running"]
  /\ UNCHANGED <<flow, mq>>

\* startTimespanGather resolves with the timespan handle.
TimespanStarts(i) ==
  /\ calls[i].op = "startTimespan"
  /\ calls[i].gather = "running"
  /\ calls' = [calls EXCEPT ![i].gather = "resolved"]
  /\ mq' = Append(mq, Job("tsStartCont", i))
  /\ UNCHANGED flow

\* navigationGather, endTimespanGather or snapshotGather resolves.
GatherResolves(i, url) ==
  /\ calls[i].op # "startTimespan"
  /\ calls[i].gather = "running"
  /\ trial.phase # "off" => url = trial.url
  /\ calls' = [calls EXCEPT ![i] =
                 [@ EXCEPT !.gather = "resolved",
                           !.artifacts = GatherResult(ModeOf(calls[i].op), url,
                                                      calls[i].options).artifacts]]
  /\ mq' = Append(mq, Job(ContinuationOf(calls[i].op), i))
  /\ UNCHANGED flow

GatherRejects(i, err) ==
  /\ Active(i)
  /\ trial.phase = "off"
  /\ calls' = [calls EXCEPT ![i] = [@ EXCEPT !.gather = "rejected", !.gerr = err]]
  /\ mq' = Append(mq, Job(ContinuationOf(calls[i].op), i))
  /\ UNCHANGED flow

(***************************************************************************)
(* The jobs: what runs when an awaited promise has settled.                *)
(***************************************************************************)
\* navigate resumes after `await navigationGather(...)`: it adds the step and
\* fulfils, or rejects with the collaborator's failure.  The promise is the
\* one the user awaits, or the one startNavigation attached its catch to.
navCont ==
  /\ NextJob("navCont")
  /\ LET i == Head(mq).id
         c == calls[i]
         ok == c.gather = "resolved"
         p == IF ok THEN Fulfilled ELSE Rejected(c.gerr)
         direct == c.op = "navigate"
     IN  /\ IF ok
            THEN _addGatherStep(GatherResult("navigation", c.artifacts.finalUrl, c.options),
                                c.options)
            ELSE UNCHANGED <<_gatherSteps, _gatherStepRunnerOptions>>
         /\ mq' = Append(Tail(mq), Job(IF direct THEN "callerCont" ELSE "catch", i))
         /\ calls' = [calls EXCEPT ![i] =
                        IF direct THEN [c EXCEPT !.retP = p] ELSE [c EXCEPT !.navP = p]]
         /\ UNCHANGED <<options, currentNavigation, currentTimespan, caller, failedAt>>

\* As NavigationStarted, for a reaction that never throws the error again.
NavigationStarted_Never == FALSE

\* As NavigationStarted, for a reaction that always throws the error again.
NavigationStarted_Always == TRUE

\* `if (this.currentNavigation)` of the catch reaction.
NavigationStarted == currentNavigation # 0

\* The reaction startNavigation attached with .catch: a fulfilment passes
\* through; a rejection is thrown again when this.currentNavigation is set
\* and is otherwise handed to rejectDuringSetup.  Either way
\* navigationResultPromise settles, and what awaits it is queued.
catch ==
  /\ NextJob("catch")
  /\ LET i == Head(mq).id
         c == calls[i]
         failed == c.navP.st = "rejected"
         rethrow == failed /\ NavigationStarted
         redirect == failed /\ ~NavigationStarted /\ ~Settled(c.setupP)
         cs == [calls EXCEPT ![i] =
                  [c EXCEPT !.resP = IF rethrow THEN Rejected(c.navP.err) ELSE Fulfilled,
                            !.setupP = IF redirect THEN Rejected(c.navP.err) ELSE @]]
     IN  /\ mq' = Tail(mq)
                  \o (IF redirect THEN <<Job("setupCont", i)>> ELSE <<>>)
                  \o WaiterJobs(cs, i, 1)
         /\ calls' = Collect(cs, currentNavigation, mq')
         /\ UNCHANGED flow

\* startNavigation resumes after `await navigationSetupPromise`: it records
\* currentNavigation and fulfils, or rejects with the failure of the setup.
setupCont ==
  /\ NextJob("setupCont")
  /\ LET i == Head(mq).id
         c == calls[i]
         ok == c.setupP.st = "fulfilled"
     IN  /\ currentNavigation' = IF ok THEN i ELSE currentNavigation
         /\ mq' = Append(Tail(mq), Job("callerCont", i))
         /\ calls' = Collect([calls EXCEPT ![i].retP =
                                IF ok THEN Fulfilled ELSE Rejected(c.setupP.err)],
                             currentNavigation', mq')
         /\ UNCHANGED <<options, _gatherSteps, _gatherStepRunnerOptions, currentTimespan, caller, failedAt>>

\* continueAndAwaitResult resumes after `await navigationResultPromise` and
\* settles its own promise the same way.
cawrCont ==
  /\ NextJob("cawrCont")
  /\ LET e == Head(mq).id
     IN  /\ calls' = [calls EXCEPT ![e].cawrP = calls[calls[e].tgt].resP]
         /\ mq' = Append(Tail(mq), Job("endNavCont", e))
         /\ UNCHANGED flow

\* endNavigation resumes after `await ...continueAndAwaitResult()`: it clears
\* currentNavigation and fulfils, or rejects with the failure.
endNavCont ==
  /\ NextJob("endNavCont")
  /\ LET e == Head(mq).id
         c == calls[e]
         ok == c.cawrP.st = "fulfilled"
     IN  /\ currentNavigation' = IF ok THEN 0 ELSE currentNavigation
         /\ mq' = Append(Tail(mq), Job("callerCont", e))
         /\ calls' = Collect([calls EXCEPT
                                ![e].retP = IF ok THEN Fulfilled ELSE Rejected(c.cawrP.err),
                                ![c.tgt].reported = IF ok \/ @ = 2 THEN @ ELSE @ + 1],
                             currentNavigation', mq')
         /\ UNCHANGED <<options, _gatherSteps, _gatherStepRunnerOptions, currentTimespan, caller, failedAt>>

\* startTimespan resumes after `await startTimespanGather(options)`.
tsStartCont ==
  /\ NextJob("tsStartCont")
  /\ LET i == Head(mq).id
         c == calls[i]
         ok == c.gather = "resolved"
     IN  /\ currentTimespan' = IF ok THEN [present |-> TRUE, options |-> c.options]
                               ELSE currentTimespan
         /\ mq' = Append(Tail(mq), Job("callerCont", i))
         /\ calls' = [calls EXCEPT ![i].retP = IF ok THEN Fulfilled ELSE Rejected(c.gerr)]
         /\ UNCHANGED <<options, _gatherSteps, _gatherStepRunnerOptions, currentNavigation, caller, failedAt>>

\* endTimespan resumes after `await timespan.endTimespanGather()`: it clears
\* currentTimespan and adds the step with the options of startTimespan.
tsEndCont ==
  /\ NextJob("tsEndCont")
  /\ LET i == Head(mq).id
         c == calls[i]
         ok == c.gather = "resolved"
     IN  /\ IF ok
            THEN /\ currentTimespan' = NoTimespan
                 /\ _addGatherStep(GatherResult("timespan", c.artifacts.finalUrl, c.options),
                                   c.options)
            ELSE UNCHANGED <<currentTimespan, _gatherSteps, _gatherStepRunnerOptions>>
         /\ mq' = Append(Tail(mq), Job("callerCont", i))
         /\ calls' = [calls EXCEPT ![i].retP = IF ok THEN Fulfilled ELSE Rejected(c.gerr)]
         /\ UNCHANGED <<options, currentNavigation, caller, failedAt>>

\* snapshot resumes after `await snapshotGather(options)`.
snapCont ==
  /\ NextJob("snapCont")
  /\ LET i == Head(mq).id
         c == calls[i]
         ok == c.gather = "resolved"
     IN  /\ IF ok
            THEN _addGatherStep(GatherResult("snapshot", c.artifacts.finalUrl, c.options),
                                c.options)
            ELSE UNCHANGED <<_gatherSteps, _gatherStepRunnerOptions>>
         /\ mq' = Append(Tail(mq), Job("callerCont", i))
         /\ calls' = [calls EXCEPT ![i].retP = IF ok THEN Fulfilled ELSE Rejected(c.gerr)]
         /\ UNCHANGED <<options, currentNavigation, currentTimespan, caller, failedAt>>

\* The caller's await of the promise a method returned resumes.
callerCont ==
  /\ NextJob("callerCont")
  /\ LET i == Head(mq).id
     IN  /\ mq' = Tail(mq)
         /\ calls' = Collect([calls EXCEPT ![i].observed = TRUE], currentNavigation, mq')
         /\ UNCHANGED flow

(***************************************************************************)
(* The specification: one caller, which awaits each call before the next.  *)
(***************************************************************************)
\* A new flow, on which no call was made.
NewFlow ==
  /\ options \in FlowOptionsSet
  /\ _gatherSteps = <<>>
  /\ _gatherStepRunnerOptions = <<>>
  /\ currentNavigation = 0
  /\ currentTimespan = NoTimespan
  /\ calls = [i \in CallIds |-> FreeCall]
  /\ mq = <<>>
  /\ trial = NoTrial
  /\ failedAt = 0

Init ==
  /\ NewFlow
  /\ awaitsEachCall = TRUE

Microtask ==
  \/ navCont
  \/ catch
  \/ setupCont
  \/ cawrCont
  \/ endNavCont
  \/ tsStartCont
  \/ tsEndCont
  \/ snapCont
  \/ callerCont

Collaborator ==
  \E i \in CallIds :
    \/ InvokeRequestor(i)
    \/ RequestorSettles(i)
    \/ TimespanStarts(i)
    \/ \E url \in URLs : GatherResolves(i, url)
    \/ \E err \in GatherErrors : GatherRejects(i, err)

Call ==
  \E i \in CallIds :
    \/ \E stepOptions \in StepOptionsSet : navigate(i, stepOptions)
    \/ \E stepOptions \in StepOptionsSet : startNavigation(i, stepOptions)
    \/ endNavigation(i)
    \/ \E stepOptions \in StepOptionsSet : startTimespan(i, stepOptions)
    \/ endTimespan(i)
    \/ \E stepOptions \in StepOptionsSet : snapshot(i, stepOptions)

Next ==
  \/ Call
  \/ Collaborator
  \/ Microtask

Spec == Init /\ [][Next]_vars

\* The collaborators, when they reject with one error only.
CollaboratorOneError ==
  \E i \in CallIds :
    \/ InvokeRequestor(i)
    \/ RequestorSettles(i)
    \/ TimespanStarts(i)
    \/ \E url \in URLs : GatherResolves(i, url)
    \/ GatherRejects(i, "GatherFailed")

(***************************************************************************)
(* The same with progress, for a flow constructed without options: the     *)
(* reactions in the microtask queue run, and a navigation collaborator     *)
(* that has been called comes to invoke the requestor or to reject.        *)
(***************************************************************************)
InitLive == Init /\ options = NoOptions

RequestorOrReject(i) ==
  \/ InvokeRequestor(i)
  \/ \E err \in GatherErrors : calls[i].gather = "setup" /\ GatherRejects(i, err)

SpecLive ==
  /\ InitLive
  /\ [][Next]_vars
  /\ WF_vars(Microtask)
  /\ \A i \in CallIds : WF_vars(RequestorOrReject(i))

(***************************************************************************)
(* The same for a caller that does not await its calls: a method may be    *)
(* invoked while the calls made before are still in progress.  The flow    *)
(* has no options, the calls pass none, and the collaborators reject with  *)
(* one error.                                                              *)
(***************************************************************************)
InitOverlap ==
  /\ NewFlow
  /\ options = NoOptions
  /\ awaitsEachCall = FALSE

CallOverlap ==
  \E i \in CallIds :
    \/ navigate(i, NoOptions)
    \/ startNavigation(i, NoOptions)
    \/ endNavigation(i)
    \/ startTimespan(i, NoOptions)
    \/ endTimespan(i)
    \/ snapshot(i, NoOptions)

NextOverlap ==
  \/ CallOverlap
  \/ CollaboratorOneError
  \/ Microtask

SpecOverlap == InitOverlap /\ [][NextOverlap]_vars

(***************************************************************************)
(* The specification of the comparison of navigate with startNavigation    *)
(* followed by endNavigation: the caller of Spec, who may also, from an    *)
(* idle flow, take two flows in the same state through the two forms.      *)
(***************************************************************************)
Idle == currentNavigation = 0 /\ ~currentTimespan.present

BeginTrial(stepOptions, url) ==
  /\ trial.phase = "off"
  /\ Quiescent
  /\ Idle
  /\ Len(_gatherSteps) < MaxSteps
  /\ trial' = [phase |-> "navigate", stepOptions |-> stepOptions, url |-> url,
               saved |-> Registry, direct |-> NoRegistry]
  /\ UNCHANGED <<options, _gatherSteps, _gatherStepRunnerOptions, currentNavigation,
                 currentTimespan, calls, mq, awaitsEachCall, failedAt>>

\* The first flow is done: the caller turns to the second flow, which is in
\* the state the first one started in.
SwitchFlow ==
  /\ trial.phase = "navigate"
  /\ Quiescent
  /\ Registry # trial.saved
  /\ trial' = [trial EXCEPT !.phase = "deferred", !.direct = Registry]
  /\ _gatherSteps' = trial.saved._gatherSteps
  /\ _gatherStepRunnerOptions' = trial.saved._gatherStepRunnerOptions
  /\ UNCHANGED <<options, currentNavigation, currentTimespan, calls, mq, awaitsEachCall,
                 failedAt>>

NextEquiv ==
  \/ Next
  \/ \E stepOptions \in StepOptionsSet, url \in URLs : BeginTrial(stepOptions, url)
  \/ SwitchFlow

SpecEquiv == Init /\ [][NextEquiv]_vars

(***************************************************************************)
(* The aggregator: createFlowResult and the exported auditGatherSteps.     *)
(***************************************************************************)
AuditErrors == { "AuditFailed" }

NoStepsError == "Need at least one step before getting the result"

\* As NoResultError, without the name of the step.
NoResultError_Unnamed(stepName) == "Step did not return a result"

NoResultError(stepName) == "Step \"" \o stepName \o "\" did not return a result"

\* gatherStep.config || options.config, where options.config is the
\* this.options.config that createFlowResult passes.
RederivedConfigJson(gatherStep) ==
  IF Truthy(gatherStep.config) THEN gatherStep.config ELSE Get(options, "config")

\* The runner options recreated for a step that has none in the side table.
RecreatedRunnerOptions(gatherStep) ==
  [config |-> initializeConfig(gatherStep.artifacts.gatherMode,
                               RederivedConfigJson(gatherStep), gatherStep.flags)]

\* The audit collaborator's result: the scored result is a function of the
\* artifacts and of the resolved configuration.
AuditResult(artifacts, runnerOptions) ==
  [lhr |-> [artifacts |-> artifacts, config |-> runnerOptions.config]]

\* As FlowName, taking the host from the last step.
FlowName_LastStep ==
  IF Truthy(name) THEN name
  ELSE "User flow (" \o Hostname(_gatherSteps[Len(_gatherSteps)].artifacts.finalUrl) \o ")"

\* options.name || `User flow (${url.hostname})`, of the first step's URL.
FlowName ==
  IF Truthy(name) THEN name
  ELSE "User flow (" \o Hostname(_gatherSteps[1].artifacts.finalUrl) \o ")"

\* As HasNextStep, for a loop that ends after the first step.
HasNextStep_FirstOnly(c) == FALSE

\* `for (const gatherStep of gatherSteps)`: there is a step after the one
\* at idx.
HasNextStep(c) == c.idx < Len(_gatherSteps)

\* An iteration of the loop begins for the step at k: the runner options
\* are looked up in the side table; with them Runner.audit is called, and
\* without them initializeConfig is.
BeginIteration(c, k) ==
  IF c.table
  THEN [c EXCEPT !.idx = k, !.runnerOptions = _gatherStepRunnerOptions[k],
                 !.gather = "auditing", !.invoked = Append(@, k)]
  ELSE [c EXCEPT !.idx = k, !.gather = "resolving"]

\* auditGatherSteps(this._gatherSteps, {name, config, gatherStepRunnerOptions})
\* up to its first await; without the side table when table is FALSE.
BeginAudit(i, op, table) ==
  IF _gatherSteps = <<>>
  THEN ThrowAtCall(i, op, NoOptions, NoStepsError)
  ELSE /\ calls' = [calls EXCEPT ![i] =
                      BeginIteration([NewCall(op, NoOptions) EXCEPT !.table = table], 1)]
       /\ UNCHANGED <<flow, mq>>

createFlowResult(i) ==
  /\ IsFreeSlot(i)
  /\ trial.phase = "off"
  /\ BeginAudit(i, "createFlowResult", TRUE)

\* The exported function called with the steps and the name of
\* createArtifactsJson() and the flow's config, and no side table.
auditGatherSteps(i) ==
  /\ IsFreeSlot(i)
  /\ trial.phase = "off"
  /\ BeginAudit(i, "auditGatherSteps", FALSE)

\* initializeConfig resolves.
ConfigResolves(i) ==
  /\ calls[i].gather = "resolving"
  /\ calls' = [calls EXCEPT ![i].gather = "configured"]
  /\ mq' = Append(mq, Job("configCont", i))
  /\ UNCHANGED flow

\* Runner.audit resolves, with a result or with none.
AuditYields(i, present) ==
  /\ calls[i].gather = "auditing"
  /\ calls' = [calls EXCEPT ![i].gather = IF present THEN "audited" ELSE "absent"]
  /\ mq' = Append(mq, Job("auditCont", i))
  /\ UNCHANGED flow

\* Runner.audit rejects.
AuditRejects(i, err) ==
  /\ calls[i].gather = "auditing"
  /\ calls' = [calls EXCEPT ![i] = [@ EXCEPT !.gather = "rejected", !.gerr = err]]
  /\ mq' = Append(mq, Job("auditCont", i))
  /\ UNCHANGED flow

\* auditGatherSteps resumes after `await initializeConfig(...)`: it builds the
\* runner options and calls Runner.audit.
configCont ==
  /\ NextJob("configCont")
  /\ LET i == Head(mq).id
         c == calls[i]
     IN  /\ calls' = [calls EXCEPT ![i] =
                        [c EXCEPT !.runnerOptions = RecreatedRunnerOptions(_gatherSteps[c.idx]),
                                  !.gather = "auditing", !.invoked = Append(@, c.idx)]]
         /\ mq' = Tail(mq)
         /\ UNCHANGED flow

\* auditGatherSteps resumes after `await Runner.audit(...)`: it throws when
\* there is no result; otherwise it collects {lhr, name} and goes on with
\* the next step or, after the last one, returns {steps, name}.
auditCont ==
  /\ NextJob("auditCont")
  /\ LET i == Head(mq).id
         c == calls[i]
         gatherStep == _gatherSteps[c.idx]
         result == AuditResult(gatherStep.artifacts, c.runnerOptions)
         steps == Append(c.steps, [lhr |-> result.lhr, name |-> gatherStep.name])
     IN  /\ CASE c.gather = "rejected" ->
                   /\ calls' = [calls EXCEPT ![i].retP = Rejected(c.gerr)]
                   /\ mq' = Append(Tail(mq), Job("callerCont", i))
                   /\ failedAt' = failedAt
              [] c.gather = "absent" ->
                   /\ calls' = [calls EXCEPT ![i].retP = Rejected(NoResultError(gatherStep.name))]
                   /\ mq' = Append(Tail(mq), Job("callerCont", i))
                   /\ failedAt' = Len(_gatherSteps)
              [] HasNextStep(c) ->
                   /\ calls' = [calls EXCEPT ![i] =
                                  BeginIteration([c EXCEPT !.steps = steps], c.idx + 1)]
                   /\ mq' = Tail(mq)
                   /\ failedAt' = failedAt
              [] OTHER ->
                   /\ calls' = [calls EXCEPT ![i] =
                                  [c EXCEPT !.steps = steps,
                                            !.gather = "done",
                                            !.value = [steps |-> steps, name |-> FlowName],
                                            !.retP = Fulfilled]]
                   /\ mq' = Append(Tail(mq), Job("callerCont", i))
                   /\ failedAt' = failedAt
         /\ UNCHANGED <<options, _gatherSteps, _gatherStepRunnerOptions, currentNavigation,
                        currentTimespan, caller>>

Aggregator ==
  \/ \E i \in CallIds : createFlowResult(i)
  \/ \E i \in CallIds : auditGatherSteps(i)
  \/ \E i \in CallIds : ConfigResolves(i)
  \/ \E i \in CallIds, present \in BOOLEAN : AuditYields(i, present)
  \/ \E i \in CallIds, err \in AuditErrors : AuditRejects(i, err)
  \/ configCont
  \/ auditCont

\* The sequential caller of Spec, who may also ask for the flow result.
NextAudit ==
  \/ Call
  \/ CollaboratorOneError
  \/ Microtask
  \/ Aggregator

SpecAudit == Init /\ [][NextAudit]_vars

(***************************************************************************)
(* The specification for the names of the steps and of the flow result:    *)
(* the sequential caller, with step options that differ in the stepName,   *)
(* captures that succeed with any of the final URLs, and createFlowResult  *)
(* with an audit result for every step.                                    *)
(***************************************************************************)
CallNames ==
  \E i \in CallIds :
    \/ \E stepOptions \in StepNameOptionsSet : navigate(i, stepOptions)
    \/ \E stepOptions \in StepNameOptionsSet : startNavigation(i, stepOptions)
    \/ endNavigation(i)
    \/ \E stepOptions \in StepNameOptionsSet : startTimespan(i, stepOptions)
    \/ endTimespan(i)
    \/ \E stepOptions \in StepNameOptionsSet : snapshot(i, stepOptions)

CollaboratorNames ==
  \E i \in CallIds :
    \/ InvokeRequestor(i)
    \/ RequestorSettles(i)
    \/ TimespanStarts(i)
    \/ \E url \in URLs \cup OtherURLs : GatherResolves(i, url)

AggregatorNames ==
  \/ \E i \in CallIds : createFlowResult(i)
  \/ \E i \in CallIds : AuditYields(i, TRUE)
  \/ auditCont

NextNames ==
  \/ CallNames
  \/ CollaboratorNames
  \/ Microtask
  \/ AggregatorNames

SpecNames == Init /\ [][NextNames]_vars

(***************************************************************************)
(* Properties.  A call record holds the flow as the call found it (pre),   *)
(* so what a call did is a predicate of the states in which its record     *)
(* exists: from the invocation until its caller has resumed.               *)
(***************************************************************************)
\* The error of the state checks of navigate, startTimespan and snapshot
\* for the flow a call found.
ActiveModeError(pre) ==
  IF pre.currentTimespan.present THEN "Timespan already in progress"
  ELSE "Navigation already in progress"

WasActive(pre) == pre.currentTimespan.present \/ pre.currentNavigation # 0

\* C1: when every call is awaited before the next one is made, no reachable
\* state has both currentNavigation and currentTimespan present, whatever
\* the collaborators do.
C1_AtMostOneModeActive ==
  awaitsEachCall => ~(currentNavigation # 0 /\ currentTimespan.present)

\* A startTimespan was tried, and rejected, while a navigation was active.
C1_Witness ==
  \E i \in CallIds :
    /\ calls[i].op = "startTimespan"
    /\ calls[i].retP.st = "rejected"
    /\ currentNavigation # 0

\* C2: navigate, startTimespan and snapshot invoked while a timespan or a
\* deferred navigation is active reject at once with the error naming the
\* active mode, call no collaborator and leave currentNavigation,
\* currentTimespan and the registry as they were.
C2_CaptureRejectsWhileActive ==
  \A i \in CallIds :
    LET c == calls[i]
    IN  (c.op \in {"navigate", "startTimespan", "snapshot"} /\ WasActive(c.pre)) =>
          /\ c.retP = Rejected(ActiveModeError(c.pre))
          /\ c.gather = "none"
          /\ FlowState = c.pre

\* A snapshot was rejected while a navigation was active, in a flow that has
\* completed a step before.
C2_Witness ==
  \E i \in CallIds :
       /\ calls[i].op = "snapshot"
       /\ calls[i].pre.currentNavigation # 0
       /\ calls[i].retP = Rejected("Navigation already in progress")
       /\ _gatherSteps # <<>>

\* C3: startNavigation invoked while a timespan is active or a previous
\* startNavigation awaits its endNavigation rejects with the error of the
\* state checks and leaves the flow as it was.  (Once the microtask queue is
\* empty, every reaction to the rejection of this.navigate has run.)
C3_StartNavigationRejectsWhileActive ==
  \A i \in CallIds :
    LET c == calls[i]
    IN  (c.op = "startNavigation" /\ WasActive(c.pre) /\ mq = <<>>) =>
          /\ c.retP = Rejected(ActiveModeError(c.pre))
          /\ FlowState = c.pre

\* C4: endNavigation with no navigation in progress and endTimespan with no
\* timespan in progress reject, call no collaborator, continue no
\* navigation, and leave the flow as it was.
C4_EndRejectsWhenNothingActive ==
  \A i \in CallIds :
    LET c == calls[i]
    IN  (\/ c.op = "endNavigation" /\ c.pre.currentNavigation = 0
         \/ c.op = "endTimespan" /\ ~c.pre.currentTimespan.present) =>
          /\ c.retP.st = "rejected"
          /\ c.gather = "none"
          /\ c.tgt = 0
          /\ FlowState = c.pre

\* An endTimespan was rejected in a flow that has completed a step before.
C4_Witness ==
  \E i \in CallIds :
    /\ calls[i].op = "endTimespan"
    /\ ~calls[i].pre.currentTimespan.present
    /\ calls[i].retP.st = "rejected"
    /\ _gatherSteps # <<>>

\* C5: when navigationGather fails before it has invoked the requestor,
\* startNavigation rejects with that failure (it has settled once the
\* microtask queue is empty), currentNavigation stays absent and no step is
\* added: the flow is idle.
C5_SetupFailureRejectsStartNavigation ==
  \A i \in CallIds :
    LET c == calls[i]
    IN  (c.op = "startNavigation" /\ c.gather = "rejected" /\ c.setupP.st # "fulfilled") =>
          /\ Idle
          /\ _gatherSteps = c.pre._gatherSteps
          /\ Settled(c.retP) => c.retP = Rejected(c.gerr)
          /\ mq = <<>> => Settled(c.retP)

\* A startNavigation has rejected with the failure of its collaborator.
C5_Witness ==
  \E i \in CallIds :
    /\ calls[i].op = "startNavigation"
    /\ calls[i].gather = "rejected"
    /\ calls[i].gerr \in GatherErrors
    /\ calls[i].retP = Rejected(calls[i].gerr)
    /\ Idle

\* C6: a failure of the capture after the requestor ran is delivered
\* unchanged by endNavigation and reported once: no startNavigation call
\* rejects with it, every endNavigation call that rejects for it rejects
\* with that error, and at most one does.
C6_LateFailureReportedOnce ==
  \A i \in CallIds :
    LET c == calls[i]
    IN  (c.op = "startNavigation" /\ c.gather = "rejected" /\ c.setupP.st = "fulfilled") =>
          /\ c.retP.st # "rejected"
          /\ c.reported <= 1
          /\ \A e \in CallIds :
               (calls[e].op = "endNavigation" /\ calls[e].tgt = i
                  /\ calls[e].retP.st = "rejected") => calls[e].retP.err = c.gerr

\* The second flow of a comparison has been taken through startNavigation
\* and endNavigation.
TrialDone == trial.phase = "deferred" /\ Quiescent /\ Registry # trial.saved

\* C7: from the same idle flow and with the same successful capture,
\* startNavigation(stepOptions) followed at once by endNavigation() leaves
\* what navigate(stepOptions) leaves: the registry with one more step, the
\* same step (artifacts, name, config, flags with their defaults) with the
\* same runner options, and an idle flow.
C7_DeferredFormEqualsNavigate ==
  TrialDone =>
    /\ Registry = trial.direct
    /\ Len(_gatherSteps) = Len(trial.saved._gatherSteps) + 1
    /\ Idle

\* A comparison is done whose step is the second navigation of its flow,
\* named by default and with both defaults in its flags.
C7_Witness ==
  /\ TrialDone
  /\ Len(_gatherSteps) = 2
  /\ _gatherSteps[1].artifacts.gatherMode = "navigation"
  /\ _gatherSteps[2].name = "Navigation report (example.com/foo)"
  /\ _gatherSteps[2].flags = Flags("true", "true")
  /\ trial.stepOptions = NoOptions

\* C8: once an endNavigation (endTimespan) call that passed its state checks
\* has settled, fulfilled or rejected, currentNavigation (currentTimespan) is
\* absent.
C8_SettledEndClearsMode ==
  \A e \in CallIds :
    LET c == calls[e]
    IN  /\ (c.op = "endNavigation" /\ c.tgt # 0 /\ Settled(c.retP)) => currentNavigation = 0
        /\ (c.op = "endTimespan" /\ c.gather # "none" /\ Settled(c.retP)) =>
             ~currentTimespan.present

IsPrefix(s, t) == Len(s) <= Len(t) /\ SubSeq(t, 1, Len(s)) = s

\* What a settled call has added to the registry it found.
AddedBy(c) == Len(_gatherSteps) - Len(c.pre._gatherSteps)

\* C9: the registry is append-only.  No step removes, reorders or replaces a
\* step, and a step adds at most one at the end; a navigate, endNavigation,
\* endTimespan or snapshot call that has fulfilled has added exactly one
\* step, and a call of any method that has rejected has added none.
C9_RegistryAppendOnly ==
  /\ [][/\ IsPrefix(_gatherSteps, _gatherSteps')
        /\ Len(_gatherSteps') <= Len(_gatherSteps) + 1
        /\ Len(_gatherStepRunnerOptions') = Len(_gatherSteps')]_vars
  /\ [](\A i \in CallIds :
          LET c == calls[i]
          IN  /\ (c.op \in {"navigate", "endNavigation", "endTimespan", "snapshot"}
                    /\ c.retP.st = "fulfilled") =>
                   (AddedBy(c) = 1 /\ IsPrefix(c.pre._gatherSteps, _gatherSteps))
              /\ (c.op # "free" /\ c.retP.st = "rejected") =>
                   _gatherSteps = c.pre._gatherSteps)

\* An endNavigation has fulfilled in a flow that now has two different steps.
C9_Witness ==
  \E e \in CallIds :
    /\ calls[e].op = "endNavigation"
    /\ calls[e].retP.st = "fulfilled"
    /\ Len(_gatherSteps) = 2
    /\ _gatherSteps[1] # _gatherSteps[2]

\* The disableStorageReset the caller supplied to a navigation: the one of
\* the flags of the merged flow-level and step-level options.
SuppliedStorageReset(stepOptions) ==
  GetFlags(Spread(options, stepOptions)).disableStorageReset

HasNavigationStep(steps) ==
  \E k \in 1..Len(steps) : steps[k].artifacts.gatherMode = "navigation"

\* C10: the options a navigation capture is taken with have
\* flags.disableStorageReset equal to the supplied value when one was
\* supplied, true or false; otherwise true when the registry already held a
\* navigation step at the call (steps of other modes do not count), and
\* unset when it held none, as in the first of two navigate calls.
C10_StorageResetDefault ==
  \A i \in CallIds :
    LET c == calls[i]
        supplied == SuppliedStorageReset(c.stepOptions)
    IN  (c.op \in {"navigate", "startNavigation"} /\ c.gather # "none") =>
          GetFlags(c.options).disableStorageReset =
            IF supplied # Undefined THEN supplied
            ELSE IF HasNavigationStep(c.pre._gatherSteps) THEN "true"
            ELSE Undefined

\* The second of two navigate calls without a disableStorageReset has
\* fulfilled: the step of the first has the flag unset, the step of the
\* second has it true.
C10_Witness ==
  \E i \in CallIds :
    /\ calls[i].op = "navigate"
    /\ calls[i].retP.st = "fulfilled"
    /\ SuppliedStorageReset(calls[i].stepOptions) = Undefined
    /\ Len(_gatherSteps) = 2
    /\ _gatherSteps[1].artifacts.gatherMode = "navigation"
    /\ _gatherSteps[1].flags.disableStorageReset = Undefined
    /\ _gatherSteps[2].artifacts.gatherMode = "navigation"
    /\ _gatherSteps[2].flags.disableStorageReset = "true"

(***************************************************************************)
(* Properties of the aggregator.                                           *)
(***************************************************************************)
\* The entry the flow result holds for the step at k when the step's runner
\* options are those of the side table.
ExpectedEntry(k) ==
  [lhr |-> AuditResult(_gatherSteps[k].artifacts, _gatherStepRunnerOptions[k]).lhr,
   name |-> _gatherSteps[k].name]

\* C11: createFlowResult rejects with the "no steps" error exactly when the
\* registry is empty.  With n >= 1 steps it rejects only when Runner.audit
\* gave no result or failed; when it fulfils, Runner.audit was called once
\* per step in registry order, and the value has exactly n entries, the k-th
\* with the audit result and the name of the k-th step.
C11_CreateFlowResult ==
  \A i \in CallIds :
    LET c == calls[i]
        n == Len(_gatherSteps)
    IN  c.op = "createFlowResult" =>
          /\ (c.retP = Rejected(NoStepsError)) <=> (c.pre._gatherSteps = <<>>)
          /\ _gatherSteps = c.pre._gatherSteps
          /\ (c.retP.st = "rejected" /\ n >= 1) => c.gather \in {"absent", "rejected"}
          /\ c.retP.st = "fulfilled" =>
                /\ n >= 1
                /\ c.invoked = [k \in 1..n |-> k]
                /\ Len(c.value.steps) = n
                /\ \A k \in 1..n : c.value.steps[k] = ExpectedEntry(k)

\* A createFlowResult has fulfilled over two steps with different names.
C11_Witness ==
  \E i \in CallIds :
    /\ calls[i].op = "createFlowResult"
    /\ calls[i].retP.st = "fulfilled"
    /\ Len(calls[i].value.steps) = 2
    /\ calls[i].value.steps[1].name = _gatherSteps[1].name
    /\ calls[i].value.steps[2].name = _gatherSteps[2].name
    /\ _gatherSteps[1].name # _gatherSteps[2].name

\* C12: when Runner.audit yields no result for a step, createFlowResult
\* rejects (it has once the microtask queue is empty) with the error that
\* names that step, the first one without a result: the steps before it all
\* had theirs.  It returns no value, and the registry, its side table,
\* currentNavigation and currentTimespan are as the call found them.
C12_MissingResultFailsWhole ==
  \A i \in CallIds :
    LET c == calls[i]
    IN  (c.op = "createFlowResult" /\ c.gather = "absent") =>
          /\ Settled(c.retP) =>
                c.retP = Rejected("Step \"" \o _gatherSteps[c.idx].name
                                    \o "\" did not return a result")
          /\ mq = <<>> => Settled(c.retP)
          /\ Len(c.steps) = c.idx - 1
          /\ c.invoked = [k \in 1..c.idx |-> k]
          /\ c.value = NoFlowResult
          /\ FlowState = c.pre
          /\ Len(_gatherStepRunnerOptions) = Len(_gatherSteps)

\* A createFlowResult has fulfilled over the two steps over which an
\* earlier aggregation failed for want of a result.
C12_Witness ==
  \E i \in CallIds :
    /\ calls[i].op = "createFlowResult"
    /\ calls[i].retP.st = "fulfilled"
    /\ Len(calls[i].value.steps) = 2
    /\ failedAt = 2

\* C13: aggregation without the side table gives the scored results that
\* aggregation with it gives: for every step, whatever the flow-level and
\* step-level config and flags it was captured with, the runner options
\* recreated from the step's config (else the flow's), its flags and its
\* capture mode are those the step was captured with, and every entry of a
\* fulfilled auditGatherSteps is the entry createFlowResult gives.
C13_RecreatedOptionsEqualCaptured ==
  /\ \A k \in 1..Len(_gatherSteps) :
       RecreatedRunnerOptions(_gatherSteps[k]) = _gatherStepRunnerOptions[k]
  /\ \A i \in CallIds :
       (calls[i].op = "auditGatherSteps" /\ calls[i].retP.st = "fulfilled") =>
         \A k \in 1..Len(_gatherSteps) : calls[i].value.steps[k] = ExpectedEntry(k)

\* The same, but for the steps captured with a step option that sets config
\* to undefined in a flow that has a config.
C13_ExceptUndefinedConfig ==
  \A k \in 1..Len(_gatherSteps) :
    (_gatherSteps[k].config # Undefined \/ Get(options, "config") = Undefined) =>
      /\ RecreatedRunnerOptions(_gatherSteps[k]) = _gatherStepRunnerOptions[k]
      /\ \A i \in CallIds :
           (calls[i].op = "auditGatherSteps" /\ calls[i].retP.st = "fulfilled") =>
             calls[i].value.steps[k] = ExpectedEntry(k)

\* An auditGatherSteps without the side table has fulfilled over a step
\* that was captured with the flow's config and no config of its own.
C13_Witness ==
  \E i \in CallIds :
    /\ calls[i].op = "auditGatherSteps"
    /\ calls[i].retP.st = "fulfilled"
    /\ _gatherSteps[1].config = "flowConfig"
    /\ calls[i].value.steps[1].lhr.config.configJson = "flowConfig"

\* The host of each final URL of the model, written out.
HostOf(url) ==
  CASE url = "https://example.com/foo?x=1#y" -> "example.com"
    [] url = "https://shop.example/cart" -> "shop.example"
    [] url = "https://shop.example:8443" -> "shop.example"

\* The name a flow result has when the flow was given none.
DefaultFlowName == "User flow (" \o HostOf(_gatherSteps[1].artifacts.finalUrl) \o ")"

AuditFulfilled(c) ==
  c.op \in {"createFlowResult", "auditGatherSteps"} /\ c.retP.st = "fulfilled"

\* C14 as stated: the flow result is named by the name the flow was
\* constructed with whenever one was supplied, and otherwise
\* "User flow (<host>)" with the host of the first step's final URL.
C14_SuppliedNameAlwaysWins ==
  \A i \in CallIds :
    AuditFulfilled(calls[i]) =>
      calls[i].value.name = IF name # Undefined THEN name ELSE DefaultFlowName

\* C14: the flow result is named by the name the flow was constructed with
\* whenever a non-empty one was supplied, and otherwise (no name, or the
\* empty string) "User flow (<host>)" with the host, without the port, of
\* the final URL of the first step of the registry, whatever the later
\* steps are.
C14_FlowResultName ==
  \A i \in CallIds :
    AuditFulfilled(calls[i]) =>
      calls[i].value.name = IF name \notin {Undefined, ""} THEN name ELSE DefaultFlowName

\* A flow constructed without a name has the result name of its first
\* step, https://shop.example/cart, and a second step of another host.
C14_Witness ==
  \E i \in CallIds :
    /\ calls[i].op = "createFlowResult"
    /\ calls[i].retP.st = "fulfilled"
    /\ name = Undefined
    /\ Len(_gatherSteps) = 2
    /\ _gatherSteps[1].artifacts.finalUrl = "https://shop.example/cart"
    /\ _gatherSteps[2].artifacts.finalUrl = "https://example.com/foo?x=1#y"
    /\ calls[i].value.name = "User flow (shop.example)"

(***************************************************************************)
(* Properties of the names and options of the steps.                       *)
(***************************************************************************)
\* Host and path of each final URL of the model, written out.
ShortOf(url) ==
  CASE url = "https://example.com/foo?x=1#y" -> "example.com/foo"
    [] url = "https://shop.example/cart" -> "shop.example/cart"
    [] url = "https://shop.example:8443" -> "shop.example/"

ModeLabel(gatherMode) ==
  CASE gatherMode = "navigation" -> "Navigation"
    [] gatherMode = "timespan" -> "Timespan"
    [] gatherMode = "snapshot" -> "Snapshot"

DefaultStepName(artifacts) ==
  ModeLabel(artifacts.gatherMode) \o " report (" \o ShortOf(artifacts.finalUrl) \o ")"

\* The stepName a capture was asked for: the one of the call, for
\* endTimespan the one currentTimespan held, for endNavigation the one of
\* the startNavigation call it continued.
AskedStepName(c) ==
  CASE c.op = "endTimespan" -> Get(c.pre.currentTimespan.options, "stepName")
    [] c.op = "endNavigation" -> Get(calls[c.tgt].stepOptions, "stepName")
    [] OTHER -> Get(c.stepOptions, "stepName")

\* A capture has fulfilled; the step it appended follows those it found.
Captured(c) ==
  c.op \in {"navigate", "endNavigation", "endTimespan", "snapshot"} /\ c.retP.st = "fulfilled"

AppendedStep(c) == _gatherSteps[Len(c.pre._gatherSteps) + 1]

\* currentTimespan holds the stepName that startTimespan was called with.
TimespanKeepsStepName ==
  \A i \in CallIds :
    (calls[i].op = "startTimespan" /\ calls[i].retP.st = "fulfilled") =>
      /\ currentTimespan.present
      /\ Get(currentTimespan.options, "stepName") = Get(calls[i].stepOptions, "stepName")

\* C15 as stated: on every capture path the appended step is named by the
\* stepName whenever one was supplied, and otherwise by mode and short URL.
C15_SuppliedStepNameAlwaysWins ==
  \A i \in CallIds :
    Captured(calls[i]) =>
      AppendedStep(calls[i]).name =
        IF AskedStepName(calls[i]) # Undefined THEN AskedStepName(calls[i])
        ELSE DefaultStepName(AppendedStep(calls[i]).artifacts)

\* C15: on every capture path the appended step is named by the stepName
\* whenever a non-empty one was supplied, and otherwise (none, or the empty
\* string) "<Mode> report (<host><path>)": the mode the artifacts record,
\* and host (without port) and path ("/" when there is none) of the final
\* URL, without query and fragment.  For endTimespan the stepName is the
\* one given to startTimespan.
C15_StepName ==
  /\ TimespanKeepsStepName
  /\ \A i \in CallIds :
       Captured(calls[i]) =>
         AppendedStep(calls[i]).name =
           IF AskedStepName(calls[i]) \notin {Undefined, ""} THEN AskedStepName(calls[i])
           ELSE DefaultStepName(AppendedStep(calls[i]).artifacts)

\* An endNavigation has fulfilled whose step has the default name of
\* https://example.com/foo?x=1#y, after a timespan step named by the
\* stepName given to startTimespan.
C15_Witness ==
  \E e \in CallIds :
    /\ calls[e].op = "endNavigation"
    /\ calls[e].retP.st = "fulfilled"
    /\ Len(_gatherSteps) = 2
    /\ _gatherSteps[1].artifacts.gatherMode = "timespan"
    /\ _gatherSteps[1].name = "My step"
    /\ _gatherSteps[2].name = "Navigation report (example.com/foo)"

(***************************************************************************)
(* Properties of the promises of startNavigation.                          *)
(***************************************************************************)
\* C16: no promise that startNavigation created is rejected without a
\* handler once the microtask queue has drained, at whatever moment the
\* collaborator fails.  The promise of this.navigate has its catch reaction
\* and navigationSetupPromise is awaited from the start; the promise in
\* question is navigationResultPromise, which gets its reaction when
\* endNavigation calls continueAndAwaitResult.  (Stated for the calls that
\* found the flow idle.)
C16_NoUnobservedRejection ==
  \A i \in CallIds :
    LET c == calls[i]
    IN  (c.op = "startNavigation" /\ ~WasActive(c.pre) /\ mq = <<>>) =>
          ~(c.resP.st = "rejected" /\ ~c.resHandled)

\* C17: an endNavigation call fulfils only when the capture it continued has
\* completed: the capture did not fail, and since the matching
\* startNavigation fulfilled exactly one step, of mode navigation, was added.
\* Nothing is added between the fulfilment of startNavigation and the call of
\* endNavigation, at whatever moment the collaborator fails.
C17_EndNavigationAwaitsCapture ==
  /\ \A i \in CallIds :
       (calls[i].op = "startNavigation" /\ calls[i].retP.st = "fulfilled"
          /\ ~calls[i].continued) =>
         _gatherSteps = calls[i].pre._gatherSteps
  /\ \A e \in CallIds :
       (calls[e].op = "endNavigation" /\ calls[e].retP.st = "fulfilled") =>
         LET c == calls[calls[e].tgt]
             n == Len(c.pre._gatherSteps)
         IN  /\ c.op = "startNavigation"
             /\ c.gather = "resolved"
             /\ calls[e].pre._gatherSteps = c.pre._gatherSteps
             /\ Len(_gatherSteps) = n + 1
             /\ SubSeq(_gatherSteps, 1, n) = c.pre._gatherSteps
             /\ _gatherSteps[n + 1].artifacts.gatherMode = "navigation"

\* An endNavigation has fulfilled and its navigation step follows a
\* snapshot step.
C17_Witness ==
  \E e \in CallIds :
    /\ calls[e].op = "endNavigation"
    /\ calls[e].retP.st = "fulfilled"
    /\ calls[calls[e].tgt].gather = "resolved"
    /\ Len(_gatherSteps) = 2
    /\ _gatherSteps[1].artifacts.gatherMode = "snapshot"
    /\ _gatherSteps[2].artifacts.gatherMode = "navigation"

\* C18: every startNavigation call settles, in whatever state of the flow it
\* is made, once the reactions have run and the collaborator, if it was
\* called, has invoked the requestor or rejected.
C18_StartNavigationSettles ==
  \A i \in CallIds :
    (calls[i].op = "startNavigation") ~>
      (calls[i].op = "startNavigation" /\ Settled(calls[i].retP))

(***************************************************************************)
(* Properties under overlapping invocations.                               *)
(***************************************************************************)
StartsCapture(c) == c.op \in {"navigate", "startNavigation", "startTimespan", "snapshot"}

\* A capture is in flight: its collaborator was called and the method has
\* not settled.
InFlight(c) ==
  /\ StartsCapture(c) \/ c.op = "endTimespan"
  /\ c.gather # "none"
  /\ ~Settled(IF c.op = "startNavigation" THEN c.resP ELSE c.retP)

\* C19 as stated: also when methods are invoked while earlier calls are in
\* progress, currentNavigation and currentTimespan are never both present
\* and no two captures are in flight at once.
C19_MutualExclusionUnderOverlap ==
  /\ ~(currentNavigation # 0 /\ currentTimespan.present)
  /\ \A i, j \in CallIds : (InFlight(calls[i]) /\ InFlight(calls[j])) => i = j

\* C19: when methods are invoked while earlier calls are in progress, the
\* state checks reject a capture operation exactly when currentNavigation or
\* currentTimespan is present at the invocation; a capture whose
\* collaborator call is still pending is not seen by them.
C19_ChecksSeeRecordedModesOnly ==
  \A i \in CallIds :
    LET c == calls[i]
    IN  StartsCapture(c) =>
          /\ (c.gather = "none") <=> WasActive(c.pre)
          /\ (c.op # "startNavigation" /\ WasActive(c.pre)) =>
                c.retP = Rejected(ActiveModeError(c.pre))

\* A startNavigation invoked while a startTimespan was pending has passed
\* its checks, and both currentNavigation and currentTimespan are present.
C19_Witness ==
  /\ ~awaitsEachCall
  /\ currentNavigation # 0
  /\ currentTimespan.present
  /\ \E i \in CallIds :
       /\ calls[i].op = "startNavigation"
       /\ calls[i].gather # "none"
       /\ ~WasActive(calls[i].pre)

====
